---------------------------- MODULE Spec2Model ----------------------------
(***************************************************************************)
(* Clinical Research Data Capture (src/clinical_research_app.py).          *)
(*                                                                         *)
(* The program is a Streamlit script: every user interaction re-runs the   *)
(* whole script for that browser session.  A run checks the connection's   *)
(* database, draws the sidebar, then draws the selected page; a pressed    *)
(* button or a submitted form is handled at the place of the script where  *)
(* the widget is drawn.  The relational store and the st.cache_data cache  *)
(* are shared by all sessions, st.session_state is per session.            *)
(*                                                                         *)
(* Texts are sequences of one-character strings.  A run of one session is  *)
(* one step, except that a handler issuing two write statements is split   *)
(* between the two statements, so that statements of other sessions can    *)
(* fall between them.                                                      *)
(***************************************************************************)
EXTENDS Integers, Sequences, FiniteSets, TLC

VARIABLES
    now,             \* wall clock, seconds (datetime.now())
    studies,         \* table STUDIES, in insertion order
    grants,          \* table USER_STUDY_ACCESS
    participants,    \* table PARTICIPANTS
    notes,           \* table RESEARCH_NOTES
    observations,    \* table OBSERVATIONS
    findings,        \* table FINDINGS
    cache,           \* st.cache_data: one entry per cached lookup
    current_study,   \* st.session_state.current_study, per session
    pc,              \* per session: position inside a two-statement handler
    enrolled,        \* per study id: enrollments that showed the success message
    last,            \* what the latest run did (messages, statements)
    form,            \* inputs of the latest submitted form, where watched
    stmt,            \* the values interpolated into that statement
    capacity,        \* how many write statements the store takes in this model
    watch            \* the messages and widgets of a run that `last` records

store == <<studies, grants, participants, notes, observations, findings>>
vars == <<now, studies, grants, participants, notes, observations, findings,
          cache, current_study, pc, enrolled, last, form, stmt, capacity, watch>>

----------------------------------------------------------------------------
(* Bounds of the model *)

MaxTicks == 1
MaxStore == 1
MaxLen == 2
MaxOptions == 2

----------------------------------------------------------------------------
(* Values *)

Sessions == {"s1", "s2"}
None == <<>>
Quote == "'"
Chars == {"a", Quote}
EXPECTED_DB == "CLINICAL_RESEARCH"

Pages == {"Dashboard", "Studies", "Data Entry", "Search", "Reports", "Admin"}

FindingTypes == <<"Adverse Event", "Efficacy Outcome", "Lab Abnormality",
                  "Protocol Deviation", "Other">>
Relationships == <<"Not Related", "Unlikely", "Possible", "Probable", "Definite">>

Min(a, b) == IF a < b THEN a ELSE b
Options(list) == {list[i] : i \in 1..Min(MaxOptions, Len(list))}

RECURSIVE TextsUpTo(_)
TextsUpTo(n) ==
    IF n = 0 THEN {<<>>}
    ELSE LET shorter == TextsUpTo(n - 1)
         IN  shorter \cup {Append(t, c) : t \in shorter, c \in Chars}
Texts == TextsUpTo(MaxLen)

(* Python truthiness of a text, an identifier or None: None and "" are false *)
Truthy(x) == x # None

(* Line 269: the target enrollment input, its minimum and its default *)
TARGET_MIN == 1
TARGET_DEFAULT == 50
Targets == {TARGET_MIN, TARGET_DEFAULT}

(* date.today(): st.date_input always returns a date, which is truthy *)
Today == <<"today">>

----------------------------------------------------------------------------
(* str.replace("'", "''") as Python computes it: a left-to-right scan *)

RECURSIVE ReplaceQuote(_)
ReplaceQuote(text) ==
    IF text = <<>> THEN <<>>
    ELSE IF Head(text) = Quote
         THEN <<Quote, Quote>> \o ReplaceQuote(Tail(text))
         ELSE <<Head(text)>> \o ReplaceQuote(Tail(text))

(* f"'{x}'" if x else 'NULL': the empty sequence stands for NULL *)
Clause(condition, text) == IF Truthy(condition) THEN <<text>> ELSE <<>>

----------------------------------------------------------------------------
(* The write statements: the values each f-string interpolates *)

StudyId(t) == <<"STD", t>>
NoteId(t) == <<"NOTE", t>>
ObsId(t) == <<"OBS", t>>
FindingId(t) == <<"FND", t>>
ParticipantId(study, participant_number) == <<"PART", study, participant_number>>

(* A study insert that stores the form's default target *)
StudyInsertDefaultTarget(study_id, study_name, study_number, pi_name, study_phase, study_type, study_description, target_enrollment) ==
    [table |-> "STUDIES", study_id |-> study_id,
     target_enrollment |-> TARGET_DEFAULT, current_enrollment |-> 0,
     study_status |-> "ACTIVE"]

StudyInsert(study_id, study_name, study_number, pi_name, study_phase, study_type, study_description, target_enrollment) ==
    LET safe_name == ReplaceQuote(study_name)
        safe_pi == ReplaceQuote(pi_name)
        safe_desc == IF Truthy(study_description)
                     THEN ReplaceQuote(study_description) ELSE <<>>
    IN  [table |-> "STUDIES", study_id |-> study_id, study_name |-> safe_name,
         study_number |-> study_number, principal_investigator |-> safe_pi,
         study_phase |-> study_phase, study_type |-> study_type,
         study_description |-> safe_desc,
         target_enrollment |-> target_enrollment,
         current_enrollment |-> 0, study_status |-> "ACTIVE"]

GrantInsert(study_id) ==
    [table |-> "USER_STUDY_ACCESS", user_name |-> "CURRENT_USER()",
     study_id |-> study_id, access_role |-> "PI", is_active |-> TRUE]

NoteInsert(note_id, study, note_type, note_title, note_text, note_priority) ==
    LET safe_title == ReplaceQuote(note_title)
        safe_text == ReplaceQuote(note_text)
    IN  [table |-> "RESEARCH_NOTES", note_id |-> note_id, study_id |-> study,
         note_type |-> note_type, note_title |-> safe_title,
         note_text |-> safe_text, note_priority |-> note_priority]

ObservationInsert(obs_id, study, participant_id, obs_date, visit_number, measurement_name, measurement_value, measurement_unit) ==
    LET safe_measurement == ReplaceQuote(measurement_name)
        unit_clause == Clause(measurement_unit, measurement_unit)
    IN  [table |-> "OBSERVATIONS", observation_id |-> obs_id, study_id |-> study,
         participant_id |-> participant_id, observation_date |-> obs_date,
         visit_number |-> visit_number, measurement_name |-> safe_measurement,
         measurement_value |-> measurement_value,
         measurement_unit |-> unit_clause]

FindingInsert(finding_id, study, finding_type, finding_description, severity, relationship, action_taken, outcome, sae) ==
    LET safe_desc == ReplaceQuote(finding_description)
        safe_action == IF Truthy(action_taken)
                       THEN ReplaceQuote(action_taken) ELSE <<>>
        action_clause == Clause(action_taken, safe_action)
    IN  [table |-> "FINDINGS", finding_id |-> finding_id, study_id |-> study,
         finding_type |-> finding_type, finding_description |-> safe_desc,
         severity |-> severity, relationship_to_intervention |-> relationship,
         action_taken |-> action_clause, outcome |-> outcome,
         sae_reported |-> sae]

ParticipantInsert(study, participant_number, enrollment_date, consent_date, demographic_group, inclusion_met, exclusion_met) ==
    LET participant_id == ParticipantId(study, participant_number)
        demo_clause == Clause(demographic_group, demographic_group)
    IN  [table |-> "PARTICIPANTS", participant_id |-> participant_id,
         study_id |-> study, participant_number |-> participant_number,
         enrollment_date |-> enrollment_date, consent_date |-> consent_date,
         demographic_group |-> demo_clause,
         inclusion_criteria_met |-> inclusion_met,
         exclusion_criteria_met |-> exclusion_met,
         participant_status |-> "ACTIVE"]

(* The Finding form's conditional fields: drawn only for an Adverse Event *)
FindingRelationship(finding_type, relationship_widget) ==
    IF finding_type = "Adverse Event" THEN relationship_widget
    ELSE "Not Applicable"

(* An SAE flag read from the widget whatever the type *)
FindingSaeKept(finding_type, sae_widget) == sae_widget

(* An SAE flag that is never stored *)
FindingSaeNever(finding_type, sae_widget) == FALSE

FindingSae(finding_type, sae_widget) ==
    IF finding_type = "Adverse Event" THEN sae_widget ELSE FALSE

----------------------------------------------------------------------------
(* The store: the columns of each row that the program reads back or that  *)
(* the properties speak of                                                  *)

StudyRow(st) ==
    [study_id |-> st.study_id, target_enrollment |-> st.target_enrollment,
     current_enrollment |-> st.current_enrollment,
     study_status |-> st.study_status]
GrantRow(st) == [study_id |-> st.study_id, access_role |-> st.access_role]
ParticipantRow(st) ==
    [participant_id |-> st.participant_id, study_id |-> st.study_id,
     participant_number |-> st.participant_number,
     participant_status |-> st.participant_status]
NoteRow(st) == [study_id |-> st.study_id]
ObservationRow(st) ==
    [study_id |-> st.study_id, participant_id |-> st.participant_id]
FindingRow(st) ==
    [study_id |-> st.study_id, finding_type |-> st.finding_type,
     relationship_to_intervention |-> st.relationship_to_intervention,
     sae_reported |-> st.sae_reported]

(* A counter update that writes back a value read before the submission *)
CounterUpdateStale(rows, study) ==
    [i \in DOMAIN rows |->
        IF rows[i].study_id = study
        THEN [rows[i] EXCEPT !.current_enrollment = 1]
        ELSE rows[i]]

(* UPDATE STUDIES SET current_enrollment = current_enrollment + 1
   WHERE study_id = '<study>': one atomic statement of the store *)
CounterUpdate(rows, study) ==
    [i \in DOMAIN rows |->
        IF rows[i].study_id = study
        THEN [rows[i] EXCEPT !.current_enrollment = @ + 1]
        ELSE rows[i]]

RECURSIVE SumEnrollment(_)
SumEnrollment(rows) ==
    IF rows = <<>> THEN 0
    ELSE Head(rows).current_enrollment + SumEnrollment(Tail(rows))

(* Rows and counter increments in the store; a write statement succeeds    *)
(* only below the capacity, which keeps the model finite                    *)
StoreSize ==
    Len(studies) + Len(grants) + Len(participants) + Len(notes)
    + Len(observations) + Len(findings) + SumEnrollment(studies)
Room == StoreSize < capacity

Reverse(seq) == [i \in 1..Len(seq) |-> seq[Len(seq) + 1 - i]]

----------------------------------------------------------------------------
(* Read queries *)

ActiveStudiesQuery ==
    LET IsActive(r) == r.study_status = "ACTIVE"
    IN  Reverse(SelectSeq(studies, IsActive))

DashboardMetricsQuery ==
    LET IsActive(r) == r.study_status = "ACTIVE"
        IsActiveP(r) == r.participant_status = "ACTIVE"
    IN  << <<Len(SelectSeq(studies, IsActive)),
             Len(SelectSeq(participants, IsActiveP)),
             Len(notes), Len(findings)>> >>

StudyNameQuery(study) ==
    LET Is(r) == r.study_id = study IN SelectSeq(studies, Is)

ParticipantsQuery(study) ==
    LET Is(r) == r.study_id = study /\ r.participant_status = "ACTIVE"
    IN  SelectSeq(participants, Is)

(* A gateway that reports the fault and lets it through to its caller *)
execute_query_raises(fault, result) ==
    IF fault THEN [df |-> <<>>, error |-> TRUE, raised |-> TRUE]
    ELSE [df |-> result, error |-> FALSE, raised |-> FALSE]

(* execute_query: a fault is reported and an empty frame returned *)
execute_query(fault, result) ==
    IF fault THEN [df |-> <<>>, error |-> TRUE, raised |-> FALSE]
    ELSE [df |-> result, error |-> FALSE, raised |-> FALSE]

----------------------------------------------------------------------------
(* st.cache_data: the four cached lookups *)

TTL_STUDIES == 60
TTL_TYPES == 300

Lookups == {"get_dashboard_metrics", "get_active_studies",
            "get_study_types", "get_note_types"}
HasTtl(k) == k # "get_dashboard_metrics"

(* A time box that never runs out *)
TtlUnbounded(k) == (MaxTicks + 1) * TTL_TYPES

Ttl(k) == IF k = "get_active_studies" THEN TTL_STUDIES ELSE TTL_TYPES

NoEntry == [at |-> -1, val |-> <<>>]
EmptyCache == [k \in Lookups |-> NoEntry]
Cached(c, k) == c[k].at >= 0 /\ (HasTtl(k) => now - c[k].at < Ttl(k))

(* The body of each cached function: its query, or what its except returns *)
LookupBody(k, fault) ==
    CASE k = "get_dashboard_metrics" ->
            IF fault THEN <<>> ELSE DashboardMetricsQuery
      [] k = "get_active_studies" ->
            IF fault THEN <<>> ELSE ActiveStudiesQuery
      [] k = "get_study_types" ->
            IF fault THEN <<"default">> ELSE <<"table">>
      [] k = "get_note_types" ->
            IF fault THEN <<"default">> ELSE <<"table">>

(* Only the two lookups that display their fault: the type lists hide it *)
LookupReports(k) == k \in {"get_dashboard_metrics", "get_active_studies"}

(* A call of a cached lookup on cache c: the value returned, the cache    *)
(* afterwards, whether the query ran and whether an error was displayed    *)
Lookup(c, k, fault) ==
    IF Cached(c, k)
    THEN [val |-> c[k].val, cache |-> c, ran |-> FALSE, error |-> FALSE]
    ELSE [val |-> LookupBody(k, fault),
          cache |-> [c EXCEPT ![k] = [at |-> now, val |-> LookupBody(k, fault)]],
          ran |-> TRUE, error |-> fault /\ LookupReports(k)]

----------------------------------------------------------------------------
(* One run of the script *)

DbChecks == {EXPECTED_DB, "OTHER_DB", "FAULT"}

(* A startup check whose except branch lets the run go on *)
StartupHaltsOnMismatch(db) == db \notin {EXPECTED_DB, "FAULT"}

(* Lines 19-31: the run stops on a wrong database and on a faulting check *)
StartupHalts(db) == IF db = "FAULT" THEN TRUE ELSE db # EXPECTED_DB

Idle == [at |-> "idle"]

(* What a run did: the database its check saw, how the run ended, whether  *)
(* a read statement ran after the startup check, the write statements      *)
(* issued and succeeded in the submission, whether the cache was cleared;  *)
(* and, of the session, the event, the messages shown and the widgets      *)
(* drawn, those that the specification at hand watches                     *)
Report(s, db, event, outcome, msgs, queries, widgets, issued, wrote, cleared) ==
    [db |-> db, outcome |-> outcome, queried |-> queries # {},
     issued |-> issued, wrote |-> wrote, cleared |-> cleared,
     sess |-> IF "sess" \in watch THEN s ELSE "-",
     event |-> IF "event" \in watch THEN event ELSE "-",
     msgs |-> msgs \cap watch, widgets |-> widgets \cap watch]

Halt(s, event, db) ==
    /\ last' = Report(s, db, event, "halted",
                      IF db = "FAULT" THEN {"Database connection error"}
                      ELSE {"Wrong database"},
                      {}, {}, 0, 0, FALSE)
    /\ UNCHANGED <<now, store, cache, current_study, pc, enrolled,
                   form, stmt, capacity, watch>>

(* Lines 139-166: the current-study block and the user info.  The user     *)
(* info statements always run; their faults are swallowed and show nothing *)
Sidebar(s, sf) ==
    IF Truthy(current_study[s])
    THEN LET study_df == execute_query(sf, StudyNameQuery(current_study[s]))
             drawn == ~study_df.raised /\ study_df.df # <<>>
         IN  [widgets |-> IF drawn THEN {"Clear Selection"} ELSE {},
              msgs |-> IF study_df.error THEN {"Query error"} ELSE {},
              queries |-> {"view"}]
    ELSE [widgets |-> {}, msgs |-> {}, queries |-> {"view"}]

(* A page made of n execute_query calls, of which some fault (vf) or none: *)
(* the first call that faults decides whether the script goes on            *)
Views(n, vf) ==
    LET q == execute_query(vf /\ n > 0, <<"rows">>)
    IN  [msgs |-> IF q.error THEN {"Query error"} ELSE {},
         queries |-> IF n > 0 THEN {"view"} ELSE {},
         outcome |-> IF q.raised THEN "raised" ELSE "done"]

ViewCount(page, searching) ==
    CASE page = "Dashboard" -> 2
      [] page = "Search" -> IF searching THEN 2 ELSE 1
      [] page = "Reports" -> 3
      [] page = "Admin" -> 5

LookupMsgs(l) == IF l.error THEN {"Error loading"} ELSE {}
LookupQueries(l) == IF l.ran THEN {"lookup"} ELSE {}

(* A Data Entry page without its guard *)
DataEntryNeverStops(study) == FALSE

(* Lines 321-323: Data Entry stops the run while no study is selected *)
DataEntryStops(study) == ~Truthy(study)

Stopped(s, db, event, sf) ==
    LET sb == Sidebar(s, sf)
    IN  /\ last' = Report(s, db, event, "stop",
                          sb.msgs \cup {"Select a study first"},
                          sb.queries, sb.widgets, 0, 0, FALSE)
        /\ UNCHANGED <<now, store, cache, current_study, pc, enrolled,
                       form, stmt, capacity, watch>>

(* Lines 230-271: the study list and the creation form, before any handler *)
\* The percentage of the conditional expression, kept as the exact fraction
\* num/den; `divided` records whether the division was evaluated.
enroll_pct_divides(current_enrollment, target_enrollment) ==
    [num |-> current_enrollment * 100, den |-> target_enrollment, divided |-> TRUE]

enroll_pct(current_enrollment, target_enrollment) ==
    IF target_enrollment > 0
    THEN [num |-> current_enrollment * 100, den |-> target_enrollment, divided |-> TRUE]
    ELSE [num |-> 0, den |-> 1, divided |-> FALSE]

\* enroll_pct / 100, the argument of the progress indicator.
ProgressValue(pct) == [num |-> pct.num, den |-> pct.den * 100]

\* The progress indicator takes a fraction in [0.0, 1.0] and raises otherwise.
ProgressRaises(value) == value.num < 0 \/ value.num > value.den

ProgressBar(study) ==
    LET pct == enroll_pct(study.current_enrollment, study.target_enrollment)
    IN  [current_enrollment |-> study.current_enrollment,
         target_enrollment |-> study.target_enrollment,
         enroll_pct |-> pct, value |-> ProgressValue(pct)]

\* The rows of the list in drawing order: the loop ends at the first row
\* whose indicator raises; the rows before it have their Select button.
FirstRaise(rows) ==
    LET raising == {i \in 1..Len(rows) : ProgressRaises(ProgressBar(rows[i]).value)}
    IN  IF raising = {} THEN 0
        ELSE CHOOSE i \in raising : \A j \in raising : i <= j

ProgressBars(rows) ==
    LET n == IF FirstRaise(rows) = 0 THEN Len(rows) ELSE FirstRaise(rows)
    IN  [i \in 1..n |-> ProgressBar(rows[i])]

Selectable(rows) ==
    IF FirstRaise(rows) = 0 THEN Len(rows) ELSE FirstRaise(rows) - 1

StudiesBody(c, lf, tf) ==
    LET l == Lookup(c, "get_active_studies", lf)
        raised == FirstRaise(l.val) # 0
        t == IF raised THEN [cache |-> l.cache, ran |-> FALSE, error |-> FALSE]
             ELSE Lookup(l.cache, "get_study_types", tf)
    IN  [rows |-> l.val, cache |-> t.cache, msgs |-> LookupMsgs(l),
         queries |-> LookupQueries(l) \cup LookupQueries(t),
         bars |-> ProgressBars(l.val), raised |-> raised,
         widgets |-> (IF Selectable(l.val) > 0 THEN {"Select"} ELSE {})
                     \cup (IF raised THEN {} ELSE {"create_study_form"})]

(* Lines 325-493: the four tabs of Data Entry, before any handler *)
DataEntryBody(s, c, tf, pf) ==
    LET t == Lookup(c, "get_note_types", tf)
        participants_df ==
            execute_query(pf, ParticipantsQuery(current_study[s]))
    IN  [cache |-> t.cache, participants_df |-> participants_df.df,
         raised |-> participants_df.raised,
         msgs |-> IF participants_df.error THEN {"Query error"} ELSE {},
         queries |-> LookupQueries(t) \cup {"view"},
         widgets |->
            IF participants_df.raised THEN {"quick_note_form"}
            ELSE {"quick_note_form", "finding_form", "enroll_participant_form"}
                 \cup (IF participants_df.df # <<>>
                       THEN {"observation_form"} ELSE {})]

(* The rest of a run whose first write statement succeeded: the second    *)
(* statement, then either the success messages and the cache clear or the  *)
(* error of the except branch                                               *)
(* A second step that reports success whatever its statement did *)
ContinuedAlwaysSucceeds(run, ok) ==
    [run EXCEPT !.outcome = "done",
                !.msgs = @ \cup ({"Success"} \cap watch),
                !.issued = 2,
                !.wrote = IF ok THEN 2 ELSE 1,
                !.cleared = ok]

Continued(run, ok) ==
    [run EXCEPT !.outcome = "done",
                !.msgs = @ \cup ((IF ok THEN {"Success"} ELSE {"Write error"})
                                  \cap watch),
                !.issued = 2,
                !.wrote = IF ok THEN 2 ELSE 1,
                !.cleared = ok]

(* A handler that clears the cache whatever the submission held *)
HandledClearing(valid, ok, sae) ==
    [msgs |-> {}, issued |-> IF valid THEN 1 ELSE 0,
     wrote |-> IF ok THEN 1 ELSE 0, cleared |-> TRUE]

(* What a handler with one write statement shows and counts *)
Handled(valid, ok, sae) ==
    [msgs |-> IF ~valid THEN {"Required fields"}
              ELSE IF ~ok THEN {"Write error"}
              ELSE IF sae THEN {"SAE warning", "Success"} ELSE {"Success"},
     issued |-> IF valid THEN 1 ELSE 0,
     wrote |-> IF ok THEN 1 ELSE 0,
     cleared |-> ok]

Brief == {<<>>, <<"a">>}

----------------------------------------------------------------------------
(* Actions of the store model *)

(* Time passing that also expires the selections *)
TickForgets(d) ==
    /\ now + d <= MaxTicks * d
    /\ now' = now + d
    /\ current_study' = [s \in Sessions |-> None]
    /\ UNCHANGED <<store, cache, pc, enrolled, last, form, stmt, capacity,
                   watch>>

(* d seconds pass.  An entry whose time box has run out is never served   *)
(* again, so it is dropped here                                             *)
Tick(d) ==
    /\ now + d <= MaxTicks * d
    /\ now' = now + d
    /\ cache' = [k \in Lookups |->
                    IF HasTtl(k) /\ cache[k].at >= 0
                       /\ now' - cache[k].at >= Ttl(k)
                    THEN NoEntry ELSE cache[k]]
    /\ UNCHANGED <<store, current_study, pc, enrolled, last, form, stmt,
                   capacity, watch>>

(* A run that the startup check stops, whatever the user did *)
HaltedRun(s, db) ==
    /\ pc[s] = Idle
    /\ StartupHalts(db)
    /\ Halt(s, "any", db)

(* Dashboard, Search, Reports, Admin drawn; Search runs its query when the *)
(* button is pressed or the search text is not empty                        *)
RenderView(s, page, db, sf, mf, vf, searching) ==
    /\ pc[s] = Idle
    /\ ~StartupHalts(db)
    /\ searching => page = "Search"
    /\ LET sb == Sidebar(s, sf)
           m == IF page = "Dashboard"
                THEN Lookup(cache, "get_dashboard_metrics", mf)
                ELSE [cache |-> cache, ran |-> FALSE, error |-> FALSE]
           v == Views(ViewCount(page, searching), vf)
       IN  /\ cache' = m.cache
           /\ last' = Report(s, db, IF searching THEN "search" ELSE "view",
                             v.outcome,
                             sb.msgs \cup LookupMsgs(m) \cup v.msgs,
                             sb.queries \cup LookupQueries(m) \cup v.queries,
                             sb.widgets \cup
                                (IF page = "Search" THEN {"Search"} ELSE {}),
                             0, 0, FALSE)
    /\ UNCHANGED <<now, store, current_study, pc, enrolled, form, stmt, capacity, watch>>

RenderStudies(s, db, sf, lf, tf) ==
    /\ pc[s] = Idle
    /\ ~StartupHalts(db)
    /\ LET sb == Sidebar(s, sf)
           b == StudiesBody(cache, lf, tf)
       IN  /\ cache' = b.cache
           /\ last' = Report(s, db, "studies",
                             IF b.raised THEN "raised" ELSE "done",
                             sb.msgs \cup b.msgs, sb.queries \cup b.queries,
                             sb.widgets \cup b.widgets, 0, 0, FALSE)
           /\ stmt' = IF "progress" \in watch THEN b.bars ELSE stmt
    /\ UNCHANGED <<now, store, current_study, pc, enrolled, form, capacity, watch>>

RenderDataEntry(s, db, sf, tf, pf) ==
    /\ pc[s] = Idle
    /\ ~StartupHalts(db)
    /\ IF DataEntryStops(current_study[s])
       THEN Stopped(s, db, "data_entry", sf)
       ELSE LET sb == Sidebar(s, sf)
                b == DataEntryBody(s, cache, tf, pf)
            IN  /\ cache' = b.cache
                /\ last' = Report(s, db, "data_entry",
                                  IF b.raised THEN "raised" ELSE "done",
                                  sb.msgs \cup b.msgs,
                                  sb.queries \cup b.queries,
                                  sb.widgets \cup b.widgets, 0, 0, FALSE)
                /\ UNCHANGED <<now, store, current_study, pc, enrolled,
                               form, stmt, capacity, watch>>

(* Lines 149-151: Clear Selection pressed; the button exists in this run   *)
(* only when the study-name query returned a row                            *)
ClearSelection(s, db, sf) ==
    /\ pc[s] = Idle
    /\ ~StartupHalts(db)
    /\ LET sb == Sidebar(s, sf)
       IN  /\ "Clear Selection" \in sb.widgets
           /\ current_study' = [current_study EXCEPT ![s] = None]
           /\ last' = Report(s, db, "clear", "rerun", sb.msgs, {"view"},
                             sb.widgets, 0, 0, FALSE)
    /\ UNCHANGED <<now, store, cache, pc, enrolled, form, stmt, capacity, watch>>

(* Lines 246-248: Select pressed on row i of the list this run draws *)
SelectStudy(s, i, db, sf, lf) ==
    /\ pc[s] = Idle
    /\ ~StartupHalts(db)
    /\ LET sb == Sidebar(s, sf)
           l == Lookup(cache, "get_active_studies", lf)
       IN  /\ i \in 1..Selectable(l.val)
           /\ current_study' = [current_study EXCEPT ![s] = l.val[i].study_id]
           /\ cache' = l.cache
           /\ last' = Report(s, db, "select", "rerun",
                             sb.msgs \cup LookupMsgs(l),
                             sb.queries \cup LookupQueries(l),
                             sb.widgets \cup {"Select"}, 0, 0, FALSE)
    /\ UNCHANGED <<now, store, pc, enrolled, form, stmt, capacity, watch>>

(* Lines 275-295: Create Study submitted, up to the study insert *)
CreateStudy(s, db, sf, lf, tf, wf, study_name, study_number, pi_name, target_enrollment) ==
    /\ pc[s] = Idle
    /\ ~StartupHalts(db)
    /\ LET sb == Sidebar(s, sf)
           b == StudiesBody(cache, lf, tf)
           valid == Truthy(study_name) /\ Truthy(study_number)
                    /\ Truthy(pi_name)
           ok == valid /\ ~wf
           st == StudyInsert(StudyId(now), study_name, study_number, pi_name,
                             "Planning", "Clinical Trial", <<>>,
                             target_enrollment)
       IN  /\ ~b.raised
           /\ ok => Room
           /\ studies' = IF ok THEN Append(studies, StudyRow(st)) ELSE studies
           /\ cache' = b.cache
           /\ last' = Report(s, db, "create_study",
                             IF ok THEN "pending"
                             ELSE IF valid THEN "done" ELSE "rejected",
                             sb.msgs \cup b.msgs \cup
                                (IF ~valid THEN {"Required fields"}
                                 ELSE IF ~ok THEN {"Write error"} ELSE {}),
                             sb.queries \cup b.queries,
                             sb.widgets \cup b.widgets,
                             IF valid THEN 1 ELSE 0, IF ok THEN 1 ELSE 0,
                             FALSE)
           /\ pc' = IF ok
                    THEN [pc EXCEPT ![s] = [at |-> "grant",
                                            study_id |-> st.study_id,
                                            run |-> last']]
                    ELSE pc
    /\ form' = IF "form" \in watch
               THEN [target_enrollment |-> target_enrollment] ELSE form
    /\ UNCHANGED <<now, grants, participants, notes, observations, findings,
                   current_study, enrolled, stmt, capacity, watch>>

(* Lines 297-310: the access-grant insert, the messages, the cache clear *)
CreateStudyGrant(s, wf) ==
    /\ pc[s].at = "grant"
    /\ LET ok == ~wf
           st == GrantInsert(pc[s].study_id)
       IN  /\ ok => Room
           /\ grants' = IF ok THEN Append(grants, GrantRow(st)) ELSE grants
           /\ cache' = IF ok THEN EmptyCache ELSE cache
           /\ last' = Continued(pc[s].run, ok)
    /\ pc' = [pc EXCEPT ![s] = Idle]
    /\ UNCHANGED <<now, studies, participants, notes, observations, findings,
                   current_study, enrolled, form, stmt, capacity, watch>>

(* Lines 339-361: Save Note submitted *)
SaveNote(s, db, sf, tf, pf, wf, note_title, note_text) ==
    /\ pc[s] = Idle
    /\ ~StartupHalts(db)
    /\ IF DataEntryStops(current_study[s]) THEN Stopped(s, db, "note", sf)
       ELSE LET sb == Sidebar(s, sf)
                b == DataEntryBody(s, cache, tf, pf)
                valid == Truthy(note_title) /\ Truthy(note_text)
                ok == valid /\ ~wf
                h == Handled(valid, ok, FALSE)
                st == NoteInsert(NoteId(now), current_study[s],
                                 "Progress Note", note_title, note_text,
                                 "Normal")
            IN  /\ ok => Room
                /\ notes' = IF ok THEN Append(notes, NoteRow(st)) ELSE notes
                /\ cache' = IF h.cleared THEN EmptyCache ELSE b.cache
                /\ last' = Report(s, db, "note",
                                  IF b.raised THEN "raised"
                                  ELSE IF valid THEN "done" ELSE "rejected",
                                  sb.msgs \cup b.msgs \cup h.msgs,
                                  sb.queries \cup b.queries,
                                  sb.widgets \cup b.widgets,
                                  h.issued, h.wrote, h.cleared)
                /\ UNCHANGED <<now, studies, grants, participants,
                               observations, findings, current_study, pc,
                               enrolled, form, stmt, capacity, watch>>

(* A run of Data Entry that an exception ended before the handler *)
Raised(s, db, event, sf, b) ==
    LET sb == Sidebar(s, sf)
    IN  /\ cache' = b.cache
        /\ last' = Report(s, db, event, "raised", sb.msgs \cup b.msgs,
                          sb.queries \cup b.queries,
                          sb.widgets \cup b.widgets, 0, 0, FALSE)
        /\ UNCHANGED <<now, store, current_study, pc, enrolled, form, stmt, capacity, watch>>

(* Lines 396-420: Save Observation submitted; the form is drawn only when  *)
(* the participants query of this run returned rows                         *)
SaveObservation(s, db, sf, tf, pf, wf, row, measurement_name, measurement_value) ==
    /\ pc[s] = Idle
    /\ ~StartupHalts(db)
    /\ IF DataEntryStops(current_study[s]) THEN Stopped(s, db, "observation", sf)
       ELSE LET sb == Sidebar(s, sf)
                b == DataEntryBody(s, cache, tf, pf)
            IN  IF b.raised THEN Raised(s, db, "observation", sf, b)
                ELSE
                /\ row \in 1..Len(b.participants_df)
                /\ LET participant == b.participants_df[row].participant_number
                       HasNumber(r) == r.participant_number = participant
                       participant_id ==
                           Head(SelectSeq(b.participants_df, HasNumber))
                               .participant_id
                       valid == Truthy(participant)
                                /\ Truthy(measurement_name)
                                /\ Truthy(measurement_value)
                       ok == valid /\ ~wf
                       h == Handled(valid, ok, FALSE)
                       st == ObservationInsert(ObsId(now), current_study[s],
                                 participant_id, Today, 1, measurement_name,
                                 measurement_value, <<>>)
                   IN  /\ ok => Room
                       /\ observations' =
                             IF ok THEN Append(observations, ObservationRow(st))
                             ELSE observations
                       /\ cache' = IF h.cleared THEN EmptyCache ELSE b.cache
                       /\ last' = Report(s, db, "observation",
                                         IF valid THEN "done" ELSE "rejected",
                                         sb.msgs \cup b.msgs \cup h.msgs,
                                         sb.queries \cup b.queries,
                                         sb.widgets \cup b.widgets,
                                         h.issued, h.wrote, h.cleared)
                /\ UNCHANGED <<now, studies, grants, participants, notes,
                               findings, current_study, pc, enrolled, form,
                               stmt, capacity, watch>>

(* Lines 426-468: Save Finding submitted.  relationship_widget and         *)
(* sae_widget are what the two conditional widgets hold in the session     *)
SaveFinding(s, db, sf, tf, pf, wf, finding_type, relationship_widget, sae_widget, finding_description) ==
    /\ pc[s] = Idle
    /\ ~StartupHalts(db)
    /\ IF DataEntryStops(current_study[s]) THEN Stopped(s, db, "finding", sf)
       ELSE LET sb == Sidebar(s, sf)
                b == DataEntryBody(s, cache, tf, pf)
                relationship ==
                    FindingRelationship(finding_type, relationship_widget)
                sae == FindingSae(finding_type, sae_widget)
                valid == Truthy(finding_description)
                ok == valid /\ ~wf
                h == Handled(valid, ok, sae)
                st == FindingInsert(FindingId(now), current_study[s],
                          finding_type, finding_description, "Mild",
                          relationship, <<>>, "Ongoing", sae)
            IN  IF b.raised THEN Raised(s, db, "finding", sf, b)
                ELSE
                /\ ok => Room
                /\ findings' = IF ok THEN Append(findings, FindingRow(st))
                               ELSE findings
                /\ cache' = IF h.cleared THEN EmptyCache ELSE b.cache
                /\ last' = Report(s, db, "finding",
                                         IF valid THEN "done" ELSE "rejected",
                                  sb.msgs \cup b.msgs \cup h.msgs,
                                  sb.queries \cup b.queries,
                                  sb.widgets \cup b.widgets,
                                  h.issued, h.wrote, h.cleared)
                /\ form' = IF "form" \in watch
                           THEN [finding_type |-> finding_type,
                                 relationship_widget |-> relationship_widget,
                                 sae_widget |-> sae_widget]
                           ELSE form
                /\ UNCHANGED <<now, studies, grants, participants, notes,
                               observations, current_study, pc, enrolled,
                               stmt, capacity, watch>>

(* Lines 494-510: Enroll Participant submitted, up to the participant insert *)
EnrollParticipant(s, db, sf, tf, pf, wf, participant_number) ==
    /\ pc[s] = Idle
    /\ ~StartupHalts(db)
    /\ IF DataEntryStops(current_study[s]) THEN Stopped(s, db, "enroll", sf)
       ELSE LET sb == Sidebar(s, sf)
                b == DataEntryBody(s, cache, tf, pf)
                valid == Truthy(participant_number) /\ Truthy(Today)
                         /\ Truthy(Today)
                ok == valid /\ ~wf
                st == ParticipantInsert(current_study[s], participant_number,
                          Today, Today, <<>>, TRUE, FALSE)
            IN  IF b.raised THEN Raised(s, db, "enroll", sf, b)
                ELSE
                /\ ok => Room
                /\ participants' =
                      IF ok THEN Append(participants, ParticipantRow(st))
                      ELSE participants
                /\ cache' = b.cache
                /\ last' = Report(s, db, "enroll",
                                  IF ok THEN "pending"
                                  ELSE IF valid THEN "done" ELSE "rejected",
                                  sb.msgs \cup b.msgs \cup
                                    (IF ~valid THEN {"Required fields"}
                                     ELSE IF ~ok THEN {"Write error"} ELSE {}),
                                  sb.queries \cup b.queries,
                                  sb.widgets \cup b.widgets,
                                  IF valid THEN 1 ELSE 0,
                                  IF ok THEN 1 ELSE 0, FALSE)
                /\ pc' = IF ok
                         THEN [pc EXCEPT ![s] =
                                 [at |-> "counter",
                                  study_id |-> current_study[s],
                                  run |-> last']]
                         ELSE pc
                /\ UNCHANGED <<now, studies, grants, notes, observations,
                               findings, current_study, enrolled, form, stmt, capacity, watch>>

(* One more completed enrollment for the study *)
Counted(count, study) ==
    IF study \in DOMAIN count
    THEN [count EXCEPT ![study] = @ + 1]
    ELSE [id \in DOMAIN count \cup {study} |->
            IF id = study THEN 1 ELSE count[id]]

(* Lines 512-523: the enrollment-counter update, the messages, the clear *)
EnrollCounter(s, wf) ==
    /\ pc[s].at = "counter"
    /\ LET ok == ~wf
       IN  /\ ok => Room
           /\ studies' = IF ok THEN CounterUpdate(studies, current_study[s])
                         ELSE studies
           /\ enrolled' = IF ok THEN Counted(enrolled, current_study[s])
                          ELSE enrolled
           /\ cache' = IF ok THEN EmptyCache ELSE cache
           /\ last' = Continued(pc[s].run, ok)
    /\ pc' = [pc EXCEPT ![s] = Idle]
    /\ UNCHANGED <<now, grants, participants, notes, observations, findings,
                   current_study, form, stmt, capacity, watch>>

----------------------------------------------------------------------------
(* Inputs of a run: the database the check sees, and which statements     *)
(* fault.  A statement that the run does not execute cannot fault.  The    *)
(* browser is not part of the program: a run is given the page and the     *)
(* pressed button or submitted form as inputs, and handles a widget only   *)
(* if it draws it                                                           *)

ViewPages == Pages \ {"Studies", "Data Entry"}
Proceeding == {db \in DbChecks : ~StartupHalts(db)}
Halting == {db \in DbChecks : StartupHalts(db)}
SidebarFaults(s, F) ==
    IF "sidebar" \in F /\ Truthy(current_study[s]) THEN BOOLEAN ELSE {FALSE}
LookupFaults(k, F) ==
    IF "lookup" \in F /\ ~Cached(cache, k) THEN BOOLEAN ELSE {FALSE}
EntryFaults(s, F) ==
    IF "read" \in F /\ ~DataEntryStops(current_study[s])
    THEN BOOLEAN ELSE {FALSE}
ReadFaults(F) == IF "read" \in F THEN BOOLEAN ELSE {FALSE}
WriteFaults(F) == IF "write" \in F THEN BOOLEAN ELSE {FALSE}

Halts(S) == \E s \in S, db \in Halting : HaltedRun(s, db)

ViewsDrawn(S, F) ==
    \E s \in S, page \in ViewPages : \E db \in Proceeding,
       sf \in SidebarFaults(s, F), searching \in BOOLEAN :
       \E mf \in (IF page = "Dashboard"
                  THEN LookupFaults("get_dashboard_metrics", F) ELSE {FALSE}),
          vf \in ReadFaults(F) :
            RenderView(s, page, db, sf, mf, vf, searching)

StudiesDrawn(S, F) ==
    \E s \in S : \E db \in Proceeding, sf \in SidebarFaults(s, F),
       lf \in LookupFaults("get_active_studies", F),
       tf \in LookupFaults("get_study_types", F) :
            RenderStudies(s, db, sf, lf, tf)

DataEntryDrawn(S, F) ==
    \E s \in S : \E db \in Proceeding, sf \in SidebarFaults(s, F),
       tf \in LookupFaults("get_note_types", F), pf \in EntryFaults(s, F) :
            RenderDataEntry(s, db, sf, tf, pf)

Clears(S, F) ==
    \E s \in S : \E db \in Proceeding, sf \in SidebarFaults(s, F) :
            ClearSelection(s, db, sf)

Selects(S, F) ==
    \E s \in S : \E i \in 1..Len(studies), db \in Proceeding,
       sf \in SidebarFaults(s, F), lf \in LookupFaults("get_active_studies", F) :
            SelectStudy(s, i, db, sf, lf)

Creates(S, F, targets) ==
    \E s \in S : \E db \in Proceeding, sf \in SidebarFaults(s, F),
       lf \in LookupFaults("get_active_studies", F),
       tf \in LookupFaults("get_study_types", F), wf \in WriteFaults(F),
       study_name, study_number, pi_name \in Brief,
       target_enrollment \in targets :
            CreateStudy(s, db, sf, lf, tf, wf, study_name, study_number,
                        pi_name, target_enrollment)

Grants(S, F) == \E s \in S, wf \in WriteFaults(F) : CreateStudyGrant(s, wf)

NotesSaved(S, F) ==
    \E s \in S : \E db \in Proceeding, sf \in SidebarFaults(s, F),
       tf \in LookupFaults("get_note_types", F), pf \in EntryFaults(s, F),
       wf \in WriteFaults(F), note_title, note_text \in Brief :
            SaveNote(s, db, sf, tf, pf, wf, note_title, note_text)

ObservationsSaved(S, F) ==
    \E s \in S : \E db \in Proceeding, sf \in SidebarFaults(s, F),
       tf \in LookupFaults("get_note_types", F), pf \in EntryFaults(s, F),
       wf \in WriteFaults(F), row \in 1..(Len(participants) + 1),
       measurement_name, measurement_value \in Brief :
            SaveObservation(s, db, sf, tf, pf, wf, row, measurement_name,
                            measurement_value)

FindingsSaved(S, F, types, relationships, saes) ==
    \E s \in S : \E db \in Proceeding, sf \in SidebarFaults(s, F),
       tf \in LookupFaults("get_note_types", F), pf \in EntryFaults(s, F),
       wf \in WriteFaults(F), finding_type \in types,
       relationship_widget \in relationships,
       sae_widget \in saes, finding_description \in Brief :
            SaveFinding(s, db, sf, tf, pf, wf, finding_type,
                        relationship_widget, sae_widget, finding_description)

Enrolls(S, F) ==
    \E s \in S : \E db \in Proceeding, sf \in SidebarFaults(s, F),
       tf \in LookupFaults("get_note_types", F), pf \in EntryFaults(s, F),
       wf \in WriteFaults(F), participant_number \in Brief :
            EnrollParticipant(s, db, sf, tf, pf, wf, participant_number)

Counts(S, F) == \E s \in S, wf \in WriteFaults(F) : EnrollCounter(s, wf)

----------------------------------------------------------------------------
(* The store before the program runs: a study that is already there *)

ExistingStudy ==
    [study_id |-> StudyId(-1), target_enrollment |-> TARGET_MIN,
     current_enrollment |-> 0, study_status |-> "ACTIVE"]

OtherStudy == [ExistingStudy EXCEPT !.study_id = StudyId(-2)]

Start(watched, rows, room, selected) ==
    /\ watch = watched
    /\ now = 0
    /\ studies = rows
    /\ grants = <<>>
    /\ participants = <<>>
    /\ notes = <<>>
    /\ observations = <<>>
    /\ findings = <<>>
    /\ cache = EmptyCache
    /\ current_study = [s \in Sessions |-> selected]
    /\ pc = [s \in Sessions |-> Idle]
    /\ enrolled = <<>>
    /\ last = Report("-", EXPECTED_DB, "-", "done", {}, {}, {}, 0, 0, FALSE)
    /\ form = <<>>
    /\ stmt = <<>>
    /\ capacity = Len(studies) + room

----------------------------------------------------------------------------
(* Spec: every page and every handler, one session *)

One == {"s1"}

Init == Start({"event"}, <<ExistingStudy>>, MaxStore, None)

Next ==
    \/ Tick(TTL_TYPES)
    \/ Halts(One)
    \/ ViewsDrawn(One, {"write"})
    \/ StudiesDrawn(One, {"write"})
    \/ DataEntryDrawn(One, {"write"})
    \/ Clears(One, {"write"})
    \/ Selects(One, {"write"})
    \/ Creates(One, {"write"}, {TARGET_DEFAULT})
    \/ Grants(One, {"write"})
    \/ NotesSaved(One, {"write"})
    \/ ObservationsSaved(One, {"write"})
    \/ FindingsSaved(One, {"write"}, {"Efficacy Outcome"}, {"Not Related"},
                     {FALSE})
    \/ Enrolls(One, {"write"})
    \/ Counts(One, {"write"})

Spec == Init /\ [][Next]_vars

(* The slot holds nothing or the identifier of a study *)
SlotShape ==
    \A s \in Sessions :
        \/ current_study[s] = None
        \/ \E j \in DOMAIN studies : studies[j].study_id = current_study[s]

(* A step that changes a slot is a Select, which sets it to a listed       *)
(* study, or a Clear Selection, which empties it                            *)
SlotStep ==
    \A s \in Sessions :
        current_study'[s] # current_study[s] =>
            \/ /\ last'.event = "select"
               /\ \E j \in DOMAIN studies :
                     studies[j].study_id = current_study'[s]
            \/ /\ last'.event = "clear"
               /\ current_study'[s] = None

(* C8: the selected-study slot holds nothing or one study identifier and   *)
(* is changed only by Select and by Clear Selection: not by navigation, a  *)
(* read render, a form submission that succeeds or faults, or time passing *)
C8_SlotChangedBySelectAndClear == []SlotShape /\ [][SlotStep]_vars

(* The selection outlived the time box of the caches and a note            *)
(* submission whose insert faulted                                          *)
C8_Witness ==
    /\ Truthy(current_study["s1"])
    /\ now >= TTL_TYPES
    /\ last.event = "note" /\ last.issued = 1 /\ last.wrote = 0

(* A step of a run, as opposed to time passing, that rejected its form *)
RejectedStep == now' = now /\ last'.outcome = "rejected"

(* C9 as stated: a submission with an empty required field issues no write *)
(* and leaves the stored data and the cache unchanged                       *)
C9_RejectedChangesNothing ==
    [][RejectedStep =>
          /\ last'.issued = 0
          /\ store' = store
          /\ cache' = cache]_vars

(* C9, amended: a submission with an empty required field issues no write, *)
(* leaves the stored data unchanged and does not clear the cache; its run  *)
(* may only fill cached lookups that were absent or expired                 *)
C9_RejectedWritesNothing ==
    [][RejectedStep =>
          /\ last'.issued = 0 /\ last'.wrote = 0 /\ ~last'.cleared
          /\ store' = store
          /\ \A k \in Lookups :
                \/ cache'[k] = cache[k]
                \/ ~Cached(cache, k) /\ cache'[k].at = now]_vars

(* A form with an empty required field was rejected while the store held   *)
(* rows and the cache held the lookup its run had used                      *)
C9_Witness ==
    /\ last.outcome = "rejected" /\ last.event = "finding"
    /\ notes # <<>>
    /\ cache["get_note_types"].at = now

(* C10: a run whose startup check sees another database, or faults, halts  *)
(* before anything is drawn: it runs no lookup, no view query and no write *)
(* statement, and changes neither the store, the cache nor the selection   *)
C10_StartupCheckHalts ==
    /\ [](last.db # EXPECTED_DB =>
            /\ last.outcome = "halted"
            /\ ~last.queried
            /\ last.issued = 0 /\ last.wrote = 0 /\ ~last.cleared)
    /\ [][(now' = now /\ last'.db # EXPECTED_DB) =>
            /\ store' = store
            /\ cache' = cache
            /\ current_study' = current_study]_vars

(* The check faulted in a run of a session that had been working: a study  *)
(* is selected, the cache is filled, and the run halted                     *)
C10_Witness ==
    /\ last.db = "FAULT" /\ last.outcome = "halted"
    /\ Truthy(current_study["s1"])
    /\ cache["get_active_studies"].at >= 0

(* C5: every write statement that succeeds is followed, in the handling   *)
(* of the same submission, by clearing the whole cache                      *)
C5_WriteClearsCache ==
    (last.outcome # "pending" /\ last.wrote > 0) => last.cleared

----------------------------------------------------------------------------
(* SpecEnroll: two sessions enrol participants into the same study *)

EnrollRoom == MaxStore + 4

InitEnroll ==
    Start({"sess"}, <<ExistingStudy>>, EnrollRoom, ExistingStudy.study_id)

NextEnroll ==
    \/ DataEntryDrawn(Sessions, {})
    \/ Enrolls(Sessions, {"write"})
    \/ Counts(Sessions, {"write"})

SpecEnroll == InitEnroll /\ [][NextEnroll]_vars

Enrolled(study) == IF study \in DOMAIN enrolled THEN enrolled[study] ELSE 0

(* After N submissions whose two statements both succeeded, the counter of *)
(* a study that started at C holds C + N                                    *)
EnrollCounts ==
    \A i \in DOMAIN studies :
        studies[i].current_enrollment
            = ExistingStudy.current_enrollment + Enrolled(studies[i].study_id)

(* A participant insert that succeeds adds one row, of the session's study; *)
(* a counter update that succeeds raises that study's counter by one and    *)
(* no other counter, and adds no row                                        *)
EnrollStep ==
    \A s \in Sessions :
        /\ (pc[s] = Idle /\ pc'[s].at = "counter") =>
              /\ Len(participants') = Len(participants) + 1
              /\ SubSeq(participants', 1, Len(participants)) = participants
              /\ participants'[Len(participants')].study_id = current_study[s]
              /\ studies' = studies
        /\ (pc[s].at = "counter" /\ pc'[s] = Idle /\ last'.wrote = 2) =>
              /\ participants' = participants
              /\ Len(studies') = Len(studies)
              /\ \A i \in DOMAIN studies :
                    studies'[i].current_enrollment =
                        studies[i].current_enrollment
                        + (IF studies[i].study_id = pc[s].study_id
                           THEN 1 ELSE 0)

(* C1: every Enroll Participant submission whose two statements succeed    *)
(* adds exactly one participant row and raises the study's counter by      *)
(* exactly 1, also when the submissions of several sessions interleave:    *)
(* after N of them a counter that started at C holds C + N                 *)
C1_EnrollAddsOne == []EnrollCounts /\ [][EnrollStep]_vars

(* Session s1 completed a submission while s2 was between its two          *)
(* statements, and an earlier submission had completed before              *)
C1_Witness ==
    /\ Enrolled(ExistingStudy.study_id) = 2
    /\ studies[1].current_enrollment = 2
    /\ Len(participants) = 3
    /\ pc["s2"].at = "counter"
    /\ last.sess = "s1" /\ last.wrote = 2

----------------------------------------------------------------------------
(* SpecStudies: two sessions create studies *)

StudiesRoom == MaxStore + 2

InitStudies == Start({"form"}, <<ExistingStudy>>, StudiesRoom, None)

NextStudies ==
    \/ Tick(TTL_TYPES)
    \/ StudiesDrawn(Sessions, {})
    \/ Creates(Sessions, {"write"}, Targets)
    \/ Grants(Sessions, {"write"})

SpecStudies == InitStudies /\ [][NextStudies]_vars

(* The study insert of a valid submission adds one row: ACTIVE, enrollment *)
(* 0, the submitted target, and no grant row; the grant insert that        *)
(* follows adds one PI row for that study and no study row; a grant row    *)
(* is added by no other step                                                *)
CreateStep ==
    /\ \A s \in Sessions :
        /\ (pc[s] = Idle /\ pc'[s].at = "grant") =>
              /\ grants' = grants
              /\ Len(studies') = Len(studies) + 1
              /\ SubSeq(studies', 1, Len(studies)) = studies
              /\ studies'[Len(studies')] =
                    [study_id |-> pc'[s].study_id,
                     target_enrollment |-> form'.target_enrollment,
                     current_enrollment |-> 0, study_status |-> "ACTIVE"]
        /\ (pc[s].at = "grant" /\ pc'[s] = Idle) =>
              /\ studies' = studies
              /\ grants' = IF last'.wrote = 2
                           THEN Append(grants, [study_id |-> pc[s].study_id,
                                                access_role |-> "PI"])
                           ELSE grants
    /\ grants' # grants => \E s \in Sessions : pc[s].at = "grant"
    /\ (\A s \in Sessions : pc'[s].at = "grant" => pc[s].at = "grant")
          => Len(studies') = Len(studies)

(* Every grant row belongs to a study row that was inserted *)
GrantsHaveStudies ==
    \A i \in DOMAIN grants :
        \E j \in DOMAIN studies : studies[j].study_id = grants[i].study_id

(* C7: a valid Create Study submission whose two statements succeed adds   *)
(* exactly one study row (ACTIVE, enrollment 0, the submitted target) and  *)
(* exactly one PI grant row for its identifier; the grant insert is only   *)
(* attempted after the study insert succeeded                               *)
C7_CreateStudyRows == []GrantsHaveStudies /\ [][CreateStep]_vars

(* A submission with the minimum target completed: the store              *)
(* holds its study row and its PI grant row                                *)
C7_Witness ==
    /\ last.wrote = 2 /\ last.cleared
    /\ Len(studies) = 2 /\ Len(grants) = 1
    /\ studies[2].target_enrollment = TARGET_MIN
    /\ grants[1] = [study_id |-> studies[2].study_id, access_role |-> "PI"]
    /\ form.target_enrollment = TARGET_MIN

----------------------------------------------------------------------------
(* SpecFinding: one session submits findings of several types in a row *)

FindingRoom == MaxStore + 1

InitFinding ==
    Start({"form", "Success", "SAE warning", "Write error"},
          <<ExistingStudy>>, FindingRoom, ExistingStudy.study_id)

NextFinding ==
    \/ DataEntryDrawn(One, {})
    \/ FindingsSaved(One, {"write"}, Options(FindingTypes),
                     Options(Relationships), BOOLEAN)

SpecFinding == InitFinding /\ [][NextFinding]_vars

(* C2: every stored finding whose type is not "Adverse Event" has          *)
(* relationship "Not Applicable" and SAE flag false, whatever the two      *)
(* conditional widgets held when the form was submitted                    *)
C2_NonAdverseDefaults ==
    \A i \in DOMAIN findings :
        findings[i].finding_type # "Adverse Event" =>
            /\ findings[i].relationship_to_intervention = "Not Applicable"
            /\ findings[i].sae_reported = FALSE

(* An Adverse Event with the SAE flag was stored, then the same session    *)
(* stored another type while both widgets still held the earlier values    *)
C2_Witness ==
    /\ Len(findings) = 2
    /\ findings[1].finding_type = "Adverse Event"
    /\ findings[1].sae_reported
    /\ findings[1].relationship_to_intervention = "Unlikely"
    /\ findings[2].finding_type = "Efficacy Outcome"
    /\ last.wrote = 1
    /\ form # <<>>
    /\ form.finding_type = "Efficacy Outcome"
    /\ form.sae_widget
    /\ form.relationship_widget = "Unlikely"

(* C11: an Adverse Event finding submitted with the SAE box checked and a  *)
(* description, whose insert succeeds, is stored with sae_reported true    *)
(* and shows both the success message and the SAE warning                  *)
C11_SaeStoredAndWarned ==
    (form # <<>> /\ last.wrote = 1
     /\ form.finding_type = "Adverse Event" /\ form.sae_widget) =>
        /\ findings # <<>>
        /\ findings[Len(findings)].finding_type = "Adverse Event"
        /\ findings[Len(findings)].sae_reported
        /\ {"Success", "SAE warning"} \subseteq last.msgs
        /\ "Write error" \notin last.msgs

(* Such a finding was stored after one without the SAE flag *)
C11_Witness ==
    /\ form # <<>> /\ last.wrote = 1
    /\ form.finding_type = "Adverse Event" /\ form.sae_widget
    /\ Len(findings) = 2
    /\ ~findings[1].sae_reported
    /\ "SAE warning" \in last.msgs

----------------------------------------------------------------------------
(* SpecEntry: the Data Entry page of two sessions over two studies, with   *)
(* faulting reads                                                           *)

WriteForms == {"quick_note_form", "observation_form", "finding_form",
               "enroll_participant_form"}
DataEntryEvents == {"data_entry", "note", "observation", "finding", "enroll"}
EntryRoom == MaxStore + 2

InitEntry ==
    Start({"sess", "event", "Query error", "Select a study first"}
              \cup WriteForms,
          <<ExistingStudy, OtherStudy>>, EntryRoom, None)

NextEntry ==
    \/ Selects(Sessions, {})
    \/ Clears(Sessions, {})
    \/ DataEntryDrawn(Sessions, {"sidebar", "read"})
    \/ NotesSaved(Sessions, {"read"})
    \/ ObservationsSaved(Sessions, {"read"})
    \/ FindingsSaved(Sessions, {"read"}, {"Efficacy Outcome"},
                     {"Not Related"}, {FALSE})
    \/ Enrolls(Sessions, {"read"})
    \/ Counts(Sessions, {})

SpecEntry == InitEntry /\ [][NextEntry]_vars

(* A Data Entry run of a session whose slot is empty stops: it draws no    *)
(* write form and issues no write statement                                 *)
DataEntryGuarded ==
    (last.event \in DataEntryEvents /\ current_study[last.sess] = None) =>
        /\ last.outcome = "stop"
        /\ last.widgets \cap WriteForms = {}
        /\ last.issued = 0

Added(rows, rows_after) ==
    {rows_after[i] : i \in (DOMAIN rows_after) \ (DOMAIN rows)}

(* A row added to a Data Entry table carries the study selected in the     *)
(* session that submitted it                                                *)
RowsCarryStudy ==
    \A r \in Added(notes, notes') \cup Added(observations, observations')
              \cup Added(findings, findings')
              \cup Added(participants, participants') :
        /\ Truthy(r.study_id)
        /\ r.study_id = current_study[last'.sess]

(* C4: while the session's slot is empty the Data Entry page renders none  *)
(* of its four write forms and issues no write; every note, observation,   *)
(* finding and participant row carries the study selected in the           *)
(* submitting session at the time of the submission                        *)
C4_DataEntryNeedsStudy == []DataEntryGuarded /\ [][RowsCarryStudy]_vars

(* s2 stored a note under its own study; s1, with an empty slot, then      *)
(* submitted a note and its run stopped                                     *)
C4_Witness ==
    /\ current_study["s1"] = None
    /\ current_study["s2"] = OtherStudy.study_id
    /\ notes # <<>>
    /\ notes[Len(notes)].study_id = OtherStudy.study_id
    /\ last.sess = "s1" /\ last.event = "note" /\ last.outcome = "stop"

(* C6: execute_query never lets a fault through: it reports the fault and  *)
(* returns an empty result, and the run that called it goes on to draw     *)
(* what follows the call                                                    *)
C6_GatewayContainsFaults ==
    /\ last.outcome # "raised"
    /\ (last.event \in DataEntryEvents /\ last.outcome # "stop") =>
          /\ WriteForms \ {"observation_form"} \subseteq last.widgets
          /\ ("observation_form" \notin last.widgets
               /\ last.event # "enroll"
               /\ ParticipantsQuery(current_study[last.sess]) # <<>>)
                 => "Query error" \in last.msgs

(* The participants query of a Data Entry run faulted although the study   *)
(* has participants: the error is shown, the observation form that needs   *)
(* the rows is left out, the forms after it are drawn                       *)
C6_Witness ==
    /\ last.event = "data_entry"
    /\ "Query error" \in last.msgs
    /\ ParticipantsQuery(current_study[last.sess]) # <<>>
    /\ "observation_form" \notin last.widgets
    /\ "finding_form" \in last.widgets

----------------------------------------------------------------------------
(* SpecText: the write statements built from the free-text inputs of the   *)
(* five write forms                                                         *)

(* What the f-string puts between the quotes for an optional field *)
Interpolated(clause) == IF clause = <<>> THEN <<>> ELSE clause[1]

(* One submission is looked at: its inputs and what its statement holds *)
Built(name, inputs, texts) ==
    /\ form = <<>>
    /\ form' = [name |-> name, inputs |-> inputs]
    /\ stmt' = texts
    /\ UNCHANGED <<now, store, cache, current_study, pc, enrolled, last,
                   capacity, watch>>

(* Lines 276-295 *)
BuildStudyInsert(study_name, study_number, pi_name, study_description) ==
    /\ Truthy(study_name) /\ Truthy(study_number) /\ Truthy(pi_name)
    /\ LET st == StudyInsert(StudyId(now), study_name, study_number, pi_name,
                             "Planning", "Clinical Trial", study_description,
                             TARGET_DEFAULT)
       IN  Built("create_study_form",
                 [study_name |-> study_name, study_number |-> study_number,
                  pi_name |-> pi_name,
                  study_description |-> study_description],
                 [study_name |-> st.study_name,
                  study_number |-> st.study_number,
                  pi_name |-> st.principal_investigator,
                  study_description |-> st.study_description])

(* Lines 340-353 *)
BuildNoteInsert(note_title, note_text) ==
    /\ Truthy(note_title) /\ Truthy(note_text)
    /\ LET st == NoteInsert(NoteId(now), ExistingStudy.study_id,
                            "Progress Note", note_title, note_text, "Normal")
       IN  Built("quick_note_form",
                 [note_title |-> note_title, note_text |-> note_text],
                 [note_title |-> st.note_title, note_text |-> st.note_text])

(* Lines 397-413 *)
BuildObservationInsert(measurement_name, measurement_value, measurement_unit) ==
    /\ Truthy(measurement_name) /\ Truthy(measurement_value)
    /\ LET st == ObservationInsert(ObsId(now), ExistingStudy.study_id,
                                   <<"PART">>, Today, 1, measurement_name,
                                   measurement_value, measurement_unit)
       IN  Built("observation_form",
                 [measurement_name |-> measurement_name,
                  measurement_value |-> measurement_value,
                  measurement_unit |-> measurement_unit],
                 [measurement_name |-> st.measurement_name,
                  measurement_value |-> st.measurement_value,
                  measurement_unit |-> Interpolated(st.measurement_unit)])

(* Lines 442-459 *)
BuildFindingInsert(finding_description, action_taken) ==
    /\ Truthy(finding_description)
    /\ LET st == FindingInsert(FindingId(now), ExistingStudy.study_id,
                               "Other", finding_description, "Mild",
                               "Not Applicable", action_taken, "Ongoing",
                               FALSE)
       IN  Built("finding_form",
                 [finding_description |-> finding_description,
                  action_taken |-> action_taken],
                 [finding_description |-> st.finding_description,
                  action_taken |-> Interpolated(st.action_taken)])

(* Lines 495-510 *)
BuildParticipantInsert(participant_number, demographic_group) ==
    /\ Truthy(participant_number)
    /\ LET st == ParticipantInsert(ExistingStudy.study_id,
                                   participant_number, Today, Today,
                                   demographic_group, TRUE, FALSE)
       IN  Built("enroll_participant_form",
                 [participant_number |-> participant_number,
                  demographic_group |-> demographic_group],
                 [participant_number |-> st.participant_number,
                  demographic_group |-> Interpolated(st.demographic_group)])

InitText == Start({}, <<ExistingStudy>>, 0, None)

NextText ==
    \/ \E study_name, study_number, pi_name, study_description \in Texts :
          BuildStudyInsert(study_name, study_number, pi_name,
                           study_description)
    \/ \E note_title, note_text \in Texts :
          BuildNoteInsert(note_title, note_text)
    \/ \E measurement_name, measurement_value, measurement_unit \in Texts :
          BuildObservationInsert(measurement_name, measurement_value,
                                 measurement_unit)
    \/ \E finding_description, action_taken \in Texts :
          BuildFindingInsert(finding_description, action_taken)
    \/ \E participant_number, demographic_group \in Texts :
          BuildParticipantInsert(participant_number, demographic_group)

SpecText == InitText /\ [][NextText]_vars

(* out is text with every quote doubled and every other character kept:   *)
(* character i of text lands after the i - 1 characters before it and one  *)
(* more place for each quote among them                                     *)
QuotesBefore(text, i) ==
    Cardinality({j \in 1..(i - 1) : text[j] = Quote})

QuotesDoubled(text, out) ==
    /\ Len(out) = Len(text) + QuotesBefore(text, Len(text) + 1)
    /\ \A i \in 1..Len(text) :
          LET at == i + QuotesBefore(text, i)
          IN  /\ out[at] = text[i]
              /\ text[i] = Quote => out[at + 1] = Quote

(* C3: the text interpolated into the write statement for every free-text  *)
(* input of every write form is the input with every single quote doubled  *)
(* and every other character unchanged                                      *)
C3_EveryTextEscaped ==
    form # <<>> =>
        \A field \in DOMAIN form.inputs :
            QuotesDoubled(form.inputs[field], stmt[field])

----------------------------------------------------------------------------
(* SpecSearch: the Search Notes tab over a store that holds one note *)

SEARCH_LIMIT == 100
SearchChars == {"a", "A", "_", Quote}

RECURSIVE SearchTextsUpTo(_)
SearchTextsUpTo(n) ==
    IF n = 0 THEN {<<>>}
    ELSE LET shorter == SearchTextsUpTo(n - 1)
         IN  shorter \cup {Append(t, c) : t \in shorter, c \in SearchChars}
SearchTexts == SearchTextsUpTo(MaxLen)
Dates == {0, 1}

(* str.upper() and SQL UPPER on the characters of the model *)
UpperChar(c) == IF c = "a" THEN "A" ELSE c
Upper(text) == [i \in DOMAIN text |-> UpperChar(text[i])]

(* What the database reads from the inside of a quoted literal: a doubled  *)
(* quote is one quote                                                       *)
RECURSIVE SqlLiteral(_)
SqlLiteral(text) ==
    IF text = <<>> THEN <<>>
    ELSE IF Len(text) >= 2 /\ text[1] = Quote /\ text[2] = Quote
         THEN <<Quote>> \o SqlLiteral(Tail(Tail(text)))
         ELSE <<Head(text)>> \o SqlLiteral(Tail(text))

(* SQL LIKE: % stands for any characters, _ for any one character *)
RECURSIVE Like(_, _)
Like(text, pattern) ==
    IF pattern = <<>> THEN text = <<>>
    ELSE IF Head(pattern) = "%"
         THEN \/ Like(text, Tail(pattern))
              \/ text # <<>> /\ Like(Tail(text), pattern)
         ELSE /\ text # <<>>
              /\ Head(pattern) = "_" \/ Head(pattern) = Head(text)
              /\ Like(Tail(text), Tail(pattern))

(* Lines 542-549: the where clauses of the search query *)
WhereClauses(search_text, date_from) ==
    <<[column |-> "note_date", from |-> date_from]>>
    \o (IF Truthy(search_text)
        THEN LET safe_search == Upper(ReplaceQuote(search_text))
             IN  <<[columns |-> {"note_title", "note_text"},
                    like |-> <<"%">> \o safe_search \o <<"%">>]>>
        ELSE <<>>)

(* Whether note row r passes clause c of the query *)
Passes(r, c) ==
    IF "from" \in DOMAIN c THEN r.note_date >= c.from
    ELSE \/ Like(Upper(r.note_title), SqlLiteral(c.like))
         \/ Like(Upper(r.note_text), SqlLiteral(c.like))

(* Lines 551-558: the rows of the query, by their place in the table *)
SearchQuery(where_clauses) ==
    [where |-> where_clauses, order_by |-> <<"note_date", "DESC">>,
     limit |-> SEARCH_LIMIT,
     rows |-> {i \in DOMAIN notes :
                 /\ \E j \in DOMAIN studies :
                       studies[j].study_id = notes[i].study_id
                 /\ \A k \in DOMAIN where_clauses :
                       Passes(notes[i], where_clauses[k])}]

(* Lines 536-564: a run of the Search Notes tab; the query is issued when  *)
(* the button is pressed or the search text is not empty                    *)
SearchNotes(search_text, date_from, pressed) ==
    /\ form = <<>>
    /\ pressed \/ Truthy(search_text)
    /\ form' = [search_text |-> search_text, date_from |-> date_from]
    /\ stmt' = SearchQuery(WhereClauses(search_text, date_from))
    /\ UNCHANGED <<now, store, cache, current_study, pc, enrolled, last,
                   capacity, watch>>

InitSearch ==
    /\ watch = {}
    /\ now = 0
    /\ studies = <<ExistingStudy>>
    /\ grants = <<>>
    /\ participants = <<>>
    /\ \E note_title \in SearchTexts \ {<<>>}, note_date \in Dates :
          notes = <<[study_id |-> ExistingStudy.study_id,
                     note_title |-> note_title, note_text |-> <<"A">>,
                     note_date |-> note_date]>>
    /\ observations = <<>>
    /\ findings = <<>>
    /\ cache = EmptyCache
    /\ current_study = [s \in Sessions |-> None]
    /\ pc = [s \in Sessions |-> Idle]
    /\ enrolled = <<>>
    /\ last = Report("-", EXPECTED_DB, "-", "done", {}, {}, {}, 0, 0, FALSE)
    /\ form = <<>>
    /\ stmt = <<>>
    /\ capacity = Len(studies)

NextSearch ==
    \E search_text \in SearchTexts, date_from \in Dates, pressed \in BOOLEAN :
        SearchNotes(search_text, date_from, pressed)

SpecSearch == InitSearch /\ [][NextSearch]_vars

Contains(text, part) ==
    \E i \in 0..(Len(text) - Len(part)) :
        SubSeq(text, i + 1, i + Len(part)) = part

(* C12: a search with empty text and from-date D filters by note_date >= D *)
(* only, ordered by note date descending and limited to 100 rows; a        *)
(* non-empty text adds exactly one filter, which keeps the notes whose     *)
(* title or content contains the text, case ignored                         *)
C12_SearchFilters ==
    form # <<>> =>
        /\ stmt.order_by = <<"note_date", "DESC">>
        /\ stmt.limit = SEARCH_LIMIT
        /\ stmt.where[1] = [column |-> "note_date", from |-> form.date_from]
        /\ Len(stmt.where) = IF form.search_text = <<>> THEN 1 ELSE 2
        /\ stmt.rows =
              {i \in DOMAIN notes :
                 /\ notes[i].note_date >= form.date_from
                 /\ \/ form.search_text = <<>>
                    \/ Contains(Upper(notes[i].note_title),
                                Upper(form.search_text))
                    \/ Contains(Upper(notes[i].note_text),
                                Upper(form.search_text))}

----------------------------------------------------------------------------
(* The Studies list over stored rows of every target and counter *)

MaxEnrollment == 2

Enrollments == 0..MaxEnrollment

InitProgress ==
    \E t1 \in Enrollments, c1 \in Enrollments, t2 \in Enrollments, c2 \in Enrollments :
        Start({"event", "progress", "Select", "create_study_form"}, <<[ExistingStudy EXCEPT !.target_enrollment = t1, !.current_enrollment = c1], [OtherStudy EXCEPT !.target_enrollment = t2, !.current_enrollment = c2]>>, 0, None)

NextProgress ==
    \/ Tick(TTL_STUDIES)
    \/ StudiesDrawn(One, {"lookup"})
    \/ Selects(One, {})

SpecProgress == InitProgress /\ [][NextProgress]_vars

\* C13: in the Studies list a row whose target_enrollment is 0 gets the
\* enrollment percentage 0 without any division being evaluated, whatever
\* its current_enrollment is, and the indicator is given the fraction 0.
C13_ZeroTargetNoDivision ==
    \A i \in DOMAIN stmt :
        stmt[i].target_enrollment = 0 =>
            /\ stmt[i].enroll_pct.num = 0
            /\ ~stmt[i].enroll_pct.divided
            /\ stmt[i].value.num = 0
            /\ ~ProgressRaises(stmt[i].value)

C13_Witness ==
    /\ last.event = "studies"
    /\ last.outcome = "done"
    /\ \E i \in DOMAIN stmt :
          /\ stmt[i].target_enrollment = 0
          /\ stmt[i].current_enrollment = MaxEnrollment

----------------------------------------------------------------------------
(* The two-statement writes of one session, each statement able to fault *)

PairRoom == MaxStore + 2

InitPair ==
    Start({"event", "Success", "Write error", "Required fields"}, <<ExistingStudy>>, PairRoom, ExistingStudy.study_id)

NextPair ==
    \/ Creates(One, {"write"}, {TARGET_DEFAULT})
    \/ Grants(One, {"write"})
    \/ Enrolls(One, {"write"})
    \/ Counts(One, {"write"})

SpecPair == InitPair /\ [][NextPair]_vars

FirstRowKept(s) ==
    IF pc[s].at = "grant"
    THEN \E i \in DOMAIN studies' : studies'[i].study_id = pc[s].study_id
    ELSE \E i \in DOMAIN participants' : participants'[i].study_id = pc[s].study_id

SecondFaulted(s) ==
    /\ pc[s].at \in {"grant", "counter"}
    /\ pc'[s] = Idle
    /\ pc[s].at = "grant" => grants' = grants
    /\ pc[s].at = "counter" => studies' = studies

PairStep ==
    \A s \in Sessions :
        SecondFaulted(s) =>
            /\ store' = store
            /\ FirstRowKept(s)
            /\ last'.issued = 2
            /\ last'.wrote = 1
            /\ last'.msgs = pc[s].run.msgs \cup {"Write error"}
            /\ "Success" \notin last'.msgs
            /\ ~last'.cleared
            /\ cache' = cache

\* C14: when the second statement of a two-statement write (access grant
\* after study insert, counter update after participant insert) faults, the
\* row of the first statement stays in the store, exactly the two statements
\* were issued, the success message is not shown and the error message is.
C14_SecondFaultKeepsFirst == [][PairStep]_vars

C14_Witness ==
    /\ last.event = "enroll"
    /\ last.wrote = 1
    /\ last.issued = 2
    /\ last.msgs = {"Write error"}
    /\ Len(participants) = 1
    /\ enrolled = <<>>
    /\ Len(studies) = 2
    /\ grants = <<>>

----------------------------------------------------------------------------
(* The cached lookups read over time by one session, no write in between *)

DashboardDrawn(S, F) ==
    \E s \in S : \E db \in Proceeding, sf \in SidebarFaults(s, F), mf \in LookupFaults("get_dashboard_metrics", F), vf \in ReadFaults(F) :
        RenderView(s, "Dashboard", db, sf, mf, vf, FALSE)

InitCache ==
    Start({"event", "Error loading"}, <<ExistingStudy>>, 0, ExistingStudy.study_id)

NextCache ==
    \/ Tick(TTL_TYPES)
    \/ DashboardDrawn(One, {"lookup"})
    \/ StudiesDrawn(One, {"lookup"})
    \/ DataEntryDrawn(One, {"lookup"})

SpecCache == InitCache /\ [][NextCache]_vars

ServedWithin(k, box) ==
    /\ cache'[k].at >= 0
    /\ now' - cache'[k].at < box

ActiveStudiesStep ==
    StudiesDrawn(One, {"lookup"}) => ServedWithin("get_active_studies", TTL_STUDIES)

(* The dashboard lookup declares no time box of its own; the longest one *)
(* the program declares stands for it                                     *)
DashboardStep ==
    DashboardDrawn(One, {"lookup"}) => ServedWithin("get_dashboard_metrics", TTL_TYPES)

DashboardKeptStep ==
    (DashboardDrawn(One, {"lookup"}) /\ cache["get_dashboard_metrics"].at >= 0)
        => cache'["get_dashboard_metrics"] = cache["get_dashboard_metrics"]

\* C15: with no write in between, a Dashboard render uses dashboard metrics
\* and a Studies render uses an active-studies list that were queried within
\* the lookup's time box: a call made after the box has elapsed runs the
\* query again instead of returning the cached value.
C15_LookupsTimeBoxed == [][ActiveStudiesStep /\ DashboardStep]_vars

\* C15, amended: with no write in between, a Studies render uses an
\* active-studies list queried less than TTL_STUDIES seconds ago, while a
\* Dashboard render returns the cached dashboard metrics however old they are.
C15_OnlyActiveStudiesTimeBoxed == [][ActiveStudiesStep /\ DashboardKeptStep]_vars

C15_Witness ==
    /\ now >= TTL_TYPES
    /\ last.event = "view"
    /\ cache["get_dashboard_metrics"].at = 0
    /\ cache["get_active_studies"].at = now

\* C18: a faulted lookup is not cached: whatever a cached lookup would serve
\* from the cache is what its query returns from the healthy, unchanged
\* store, never the empty or built-in result of a faulted execution.
C18_FaultedLookupNotCached ==
    \A k \in Lookups :
        Cached(cache, k) => cache[k].val = LookupBody(k, FALSE)

----------------------------------------------------------------------------
(* The sidebar of two sessions, its study-name query able to fault *)

InitSidebar ==
    Start({"sess", "event", "Clear Selection", "Query error"}, <<ExistingStudy, OtherStudy>>, 0, None)

NextSidebar ==
    \/ Selects(Sessions, {"sidebar"})
    \/ Clears(Sessions, {"sidebar"})
    \/ DashboardDrawn(Sessions, {"sidebar"})
    \/ StudiesDrawn(Sessions, {"sidebar"})

SpecSidebar == InitSidebar /\ [][NextSidebar]_vars

\* C16: a render made with a non-empty selected-study slot offers the Clear
\* Selection action in its sidebar, also when the study-name query for the
\* selected identifier faults or returns no row.
C16_ClearSelectionAlwaysOffered ==
    (last.event \in {"view", "studies"} /\ Truthy(current_study[last.sess]))
        => "Clear Selection" \in last.widgets

----------------------------------------------------------------------------
(* Studies created with the smallest target the form accepts, then enrolled *)

TargetRoom == MaxStore + 5

InitTarget == Start({"event", "progress"}, <<>>, TargetRoom, None)

NextTarget ==
    \/ Creates(One, {}, {TARGET_MIN})
    \/ Grants(One, {})
    \/ Selects(One, {})
    \/ Enrolls(One, {})
    \/ Counts(One, {})
    \/ StudiesDrawn(One, {})

SpecTarget == InitTarget /\ [][NextTarget]_vars

\* C17: after any sequence of Create Study and Enroll Participant
\* submissions every study's current_enrollment is at most its
\* target_enrollment, and every fraction the Studies list hands to its
\* progress indicator lies between 0 and 1 inclusive.
C17_EnrollmentWithinTarget ==
    /\ \A i \in DOMAIN studies :
          studies[i].current_enrollment <= studies[i].target_enrollment
    /\ \A i \in DOMAIN stmt : ~ProgressRaises(stmt[i].value)
    /\ last.outcome # "raised"

============================================================================
